---- MODULE Spec2Model ----
(***************************************************************************)
(* Model of the API-discrepancy checker of ci/ray_ci/doc: the autodoc      *)
(* directive parser (parse_autodoc_directives, API.from_autosummary,       *)
(* API.from_autoclass), the canonicalizer (API.get_canonical_name) and the *)
(* reconciler (_validate_documented_public_apis, fed by main).             *)
(*                                                                         *)
(* Python strings are sequences of one-character strings, so that strip,   *)
(* startswith, removeprefix, rpartition, splitlines and the substring test *)
(* are computed as Python computes them.                                   *)
(***************************************************************************)
EXTENDS Integers, Sequences, FiniteSets, TLC

VARIABLES
    \* ---- parse_autodoc_directives ----
    exists,     \* rst_file.exists()
    rst_file,   \* the document: the lines f.readline() returns, in order
    pos,        \* lines read from f so far
    line,       \* local `line` ("" at end of file)
    module,     \* local `module`
    apis,       \* local `apis`
    doc,        \* local `doc`, the text of the block being collected
    pc,         \* control point of the running function
    result,     \* value returned by parse_autodoc_directives
    \* history of the scan (not program state)
    examined,   \* indices of the lines tested by the main loop, in order
    collected,  \* indices of the lines consumed inside a block
    terms,      \* indices of the lines that ended a block
    expected,   \* Function references the reference lines collected so far stand for
    ndocs,      \* documents get_autodoc_apis has parsed before this one
    \* ---- the symbol environment importlib and getattr look into ----
    env,
    \* ---- API.get_canonical_name ----
    entry,      \* self.name of the API being canonicalized
    canon,      \* outcome of get_canonical_name on `entry`
    recanon,    \* outcome of get_canonical_name on an API named by `canon`
    pcC,
    \* ---- main and _validate_documented_public_apis ----
    apis_in_docs,   \* dict of main: canonical name -> API
    apis_in_code,   \* dict of main: canonical name -> API
    validated,      \* the six sets returned
    pcR,
    \* ---- oneshot(func): the wrapped function ----
    last_caller,    \* wrapped.last_caller
    ran,            \* times func() has been called
    calls,          \* history: force, caller and outcome of each call of wrapped
    \* ---- Nav ----
    tree,           \* self.tree: the top-level entries, in order
    nodes,          \* the entry objects: 'file', and 'sections' when present
    flat,           \* self.flat: file -> entry object
    before,         \* history: flat and nodes when the last insert was called
    insert_raised   \* history: the last insert raised ValueError

parseVars == <<exists, rst_file, pos, line, module, apis, doc, pc, result,
               examined, collected, terms, expected, ndocs>>

canonVars == <<entry, canon, recanon, pcC>>

reconVars == <<apis_in_docs, apis_in_code, validated, pcR>>

oneshotVars == <<last_caller, ran, calls>>

navVars == <<tree, nodes, flat, before, insert_raised>>

vars == <<parseVars, env, canonVars, reconVars, oneshotVars, navVars>>

---------------------------------------------------------------------------
(* Bounds of the model.                                                    *)

\* Longest document built freely from LinePool.
MaxLines == 3

\* Most segments of a name handed to get_canonical_name.
MaxSegs == 3

\* Most entries of the documentation inventory and of the code inventory.
MaxDocApis == 1

MaxCodeApis == 2

\* Most documents get_autodoc_apis parses after the first.
MaxFollowUps == 1

\* Most calls of the wrapped function.
MaxCalls == 4

\* Longest list of ancestors handed to Nav.insert.
MaxAncestors == 2

---------------------------------------------------------------------------
(* Python values.                                                          *)

\* None, where a str is expected; no string equals it.
NoneVal == <<"None">>

\* None, where an API is expected.
NoneAPI == [isNone |-> TRUE]

\* bool(x) of an Optional[str].
Truthy(s) == s # NoneVal /\ s # <<>>

\* The empty string, which is also what readline() returns at end of file.
EOF == <<>>

SPHINX_AUTOSUMMARY_HEADER ==
    <<".","."," ","a","u","t","o","s","u","m","m","a","r","y",":",":">>
SPHINX_AUTOCLASS_HEADER ==
    <<".","."," ","a","u","t","o","c","l","a","s","s",":",":">>
SPHINX_AUTODOC_SHORTNAME ==
    <<"~">>
SPHINX_CURRENTMODULE_HEADER ==
    <<".","."," ","c","u","r","r","e","n","t","m","o","d","u","l","e",":",":">>
DOT ==
    <<".">>
COLON ==
    <<":">>

---------------------------------------------------------------------------
(* str methods.                                                            *)

\* Characters str.strip() removes and the regular expression \s matches.
IsSpace(c) == c \in {" ", "\n", "\t"}

\* s.strip()
Strip(s) ==
    IF \A i \in 1..Len(s) : IsSpace(s[i]) THEN <<>>
    ELSE LET a == CHOOSE i \in 1..Len(s) :
                      ~IsSpace(s[i]) /\ \A j \in 1..(i-1) : IsSpace(s[j])
             b == CHOOSE i \in 1..Len(s) :
                      ~IsSpace(s[i]) /\ \A j \in (i+1)..Len(s) : IsSpace(s[j])
         IN  SubSeq(s, a, b)

\* s.startswith(p)
StartsWith(s, p) == Len(s) >= Len(p) /\ SubSeq(s, 1, Len(p)) = p

\* s[n:]
DropFirst(s, n) == SubSeq(s, n + 1, Len(s))

\* s.removeprefix(p)
RemovePrefix(s, p) == IF StartsWith(s, p) THEN DropFirst(s, Len(p)) ELSE s

\* p in s
Contains(s, p) ==
    \E i \in 1..(Len(s) - Len(p) + 1) : SubSeq(s, i, i + Len(p) - 1) = p

\* s.rpartition("."): (head, tail) around the last ".", ("", s) without one.
RPartition(s) ==
    IF \A i \in 1..Len(s) : s[i] # "." THEN [head |-> <<>>, tail |-> s]
    ELSE LET k == CHOOSE i \in 1..Len(s) :
                      s[i] = "." /\ \A j \in (i+1)..Len(s) : s[j] # "."
         IN  [head |-> SubSeq(s, 1, k - 1), tail |-> DropFirst(s, k)]

\* s.splitlines()
RECURSIVE SplitLines(_)
SplitLines(s) ==
    IF s = <<>> THEN <<>>
    ELSE IF \A i \in 1..Len(s) : s[i] # "\n" THEN <<s>>
    ELSE LET k == CHOOSE i \in 1..Len(s) :
                      s[i] = "\n" /\ \A j \in 1..(i-1) : s[j] # "\n"
         IN  <<SubSeq(s, 1, k - 1)>> \o SplitLines(DropFirst(s, k))

\* re.match(r"\s", s)
MatchesSpace(s) == s # <<>> /\ IsSpace(s[1])

\* f"{a}.{b}"
Dotted(a, b) == a \o DOT \o b

---------------------------------------------------------------------------
(* class API: construction from the two directive grammars.                *)

API(name, annotation_type, code_type) ==
    [name |-> name, annotation_type |-> annotation_type, code_type |-> code_type]

\* The loop of from_autosummary over lines[i..], up to its break.
RECURSIVE AutosummaryLoop(_, _, _)
AutosummaryLoop(lines, i, current_module) ==
    IF i > Len(lines) THEN <<>>
    ELSE LET l == lines[i]
             rest == AutosummaryLoop(lines, i + 1, current_module)
             attribute == RemovePrefix(Strip(l), SPHINX_AUTODOC_SHORTNAME)
             api_name == IF Truthy(current_module)
                         THEN Dotted(current_module, attribute)
                         ELSE attribute
         IN  IF l = SPHINX_AUTOSUMMARY_HEADER THEN rest
             ELSE IF StartsWith(Strip(l), COLON) THEN rest
             ELSE IF Strip(l) = <<>> THEN rest
             ELSE IF ~MatchesSpace(l) THEN <<>>
             ELSE <<API(api_name, "PublicAPI", "Function")>> \o rest

\* API.from_autosummary(doc, current_module)
from_autosummary(d, current_module) ==
    LET lines == SplitLines(d)
    IN  IF lines = <<>> THEN <<>>
        ELSE IF Strip(lines[1]) # SPHINX_AUTOSUMMARY_HEADER THEN <<>>
        ELSE AutosummaryLoop(lines, 1, current_module)

\* from_autoclass with the shorten marker left in the identifier.
from_autoclass_keepsMarker(d, current_module) ==
    LET s == Strip(d)
        cls == Strip(DropFirst(s, Len(SPHINX_AUTOCLASS_HEADER)))
        api_name == IF Truthy(current_module)
                    THEN Dotted(current_module, cls)
                    ELSE cls
    IN  IF ~StartsWith(s, SPHINX_AUTOCLASS_HEADER) THEN NoneAPI
        ELSE API(api_name, "PublicAPI", "Class")

\* API.from_autoclass(doc, current_module)
from_autoclass(d, current_module) ==
    LET s == Strip(d)
        cls == RemovePrefix(Strip(DropFirst(s, Len(SPHINX_AUTOCLASS_HEADER))),
                            SPHINX_AUTODOC_SHORTNAME)
        api_name == IF Truthy(current_module)
                    THEN Dotted(current_module, cls)
                    ELSE cls
    IN  IF ~StartsWith(s, SPHINX_AUTOCLASS_HEADER) THEN NoneAPI
        ELSE API(api_name, "PublicAPI", "Class")

---------------------------------------------------------------------------
(* Names of the symbol environments and of the inventories.                *)

N_pkg ==
    <<"p","k","g">>
N_sub ==
    <<"s","u","b">>
N_real ==
    <<"r","e","a","l">>
N_Alias ==
    <<"A","l","i","a","s">>
N_Thing ==
    <<"T","h","i","n","g">>
N_method ==
    <<"m","e","t","h","o","d">>
N_Old ==
    <<"O","l","d">>
N_internal_fn ==
    <<"_","i","n","t","e","r","n","a","l","_","f","n">>
N_builtins ==
    <<"b","u","i","l","t","i","n","s">>
N_function ==
    <<"f","u","n","c","t","i","o","n">>
N_pkg_sub ==
    <<"p","k","g",".","s","u","b">>
N_pkg_real ==
    <<"p","k","g",".","r","e","a","l">>
N_Thing_method ==
    <<"T","h","i","n","g",".","m","e","t","h","o","d">>
N_pkg_sub_Alias ==
    <<"p","k","g",".","s","u","b",".","A","l","i","a","s">>
N_pkg_real_Thing ==
    <<"p","k","g",".","r","e","a","l",".","T","h","i","n","g">>
N_pkg_sub_Alias_method ==
    <<"p","k","g",".","s","u","b",".","A","l","i","a","s",".","m","e","t","h","o","d">>
N_pkg_real_Thing_method ==
    <<"p","k","g",".","r","e","a","l",".","T","h","i","n","g",".","m","e","t","h","o","d">>
N_pkg_internal_fn ==
    <<"p","k","g",".","_","i","n","t","e","r","n","a","l","_","f","n">>
N_internal_sub_foo ==
    <<"_","i","n","t","e","r","n","a","l",".","s","u","b",".","f","o","o">>
N_pkg_internal_foo ==
    <<"p","k","g",".","_","i","n","t","e","r","n","a","l",".","f","o","o">>
N_nomod_sub_x ==
    <<"n","o","m","o","d",".","s","u","b",".","x">>
N_foo ==
    <<"f","o","o">>
INTERNAL_MARKER ==
    <<".","_","i","n","t","e","r","n","a","l",".">>
UNDERSCORE ==
    <<"_">>
N_internal ==
    <<"_","i","n","t","e","r","n","a","l">>

---------------------------------------------------------------------------
(* The symbol environment: what importlib.import_module and getattr find.  *)
(* modules: the importable module names; modattr: (module name, attribute) *)
(* -> object; objattr: (object, attribute) -> object; obj: what an object  *)
(* reports as __module__, __qualname__ and __name__ (Missing: reading the  *)
(* attribute raises AttributeError).                                       *)

Missing == <<"AttributeError">>

Obj(m, q, n) == [mod |-> m, qualname |-> q, name |-> n]

\* Nothing is importable.
EnvEmpty == [modules |-> {}, modattr |-> <<>>, objattr |-> <<>>, obj |-> <<>>]

\* pkg.sub re-exports class Thing of pkg.real as Alias; every object is bound,
\* in the module it reports, under the name it reports.
EnvPlain ==
    [modules |-> {N_pkg, N_pkg_sub, N_pkg_real},
     modattr |-> (<<N_pkg, N_sub>> :> "module pkg.sub")
                 @@ (<<N_pkg, N_real>> :> "module pkg.real")
                 @@ (<<N_pkg, N_internal_fn>> :> "fn")
                 @@ (<<N_pkg_sub, N_Alias>> :> "Thing")
                 @@ (<<N_pkg_real, N_Thing>> :> "Thing"),
     objattr |-> (<<"Thing", N_method>> :> "method")
                 @@ (<<"module pkg.sub", N_Alias>> :> "Thing")
                 @@ (<<"module pkg.real", N_Thing>> :> "Thing"),
     obj |-> ("Thing" :> Obj(N_pkg_real, N_Thing, N_Thing))
             @@ ("method" :> Obj(N_pkg_real, N_Thing_method, N_method))
             @@ ("fn" :> Obj(N_pkg, N_internal_fn, N_internal_fn))
             @@ ("module pkg.sub" :> Obj(Missing, Missing, N_pkg_sub))
             @@ ("module pkg.real" :> Obj(Missing, Missing, N_pkg_real))]

\* pkg.sub.Old is a class that reports pkg.real.Thing, a name pkg.real has
\* since rebound to class Alias of pkg.sub; pkg.real.Old is a type that
\* reports builtins.function, as types.FunctionType does, which builtins
\* does not bind.
EnvRebound ==
    [modules |-> {N_pkg, N_pkg_sub, N_pkg_real, N_builtins},
     modattr |-> (<<N_pkg, N_sub>> :> "module pkg.sub")
                 @@ (<<N_pkg, N_real>> :> "module pkg.real")
                 @@ (<<N_pkg_sub, N_Old>> :> "OldThing")
                 @@ (<<N_pkg_sub, N_Alias>> :> "Alias")
                 @@ (<<N_pkg_real, N_Thing>> :> "Alias")
                 @@ (<<N_pkg_real, N_Old>> :> "FunctionType"),
     objattr |-> (<<"module pkg.sub", N_Old>> :> "OldThing")
                 @@ (<<"module pkg.sub", N_Alias>> :> "Alias")
                 @@ (<<"module pkg.real", N_Thing>> :> "Alias")
                 @@ (<<"module pkg.real", N_Old>> :> "FunctionType"),
     obj |-> ("OldThing" :> Obj(N_pkg_real, N_Thing, N_Thing))
             @@ ("Alias" :> Obj(N_pkg_sub, N_Alias, N_Alias))
             @@ ("FunctionType" :> Obj(N_builtins, N_function, N_function))
             @@ ("module pkg.sub" :> Obj(Missing, Missing, N_pkg_sub))
             @@ ("module pkg.real" :> Obj(Missing, Missing, N_pkg_real))]

EnvPool == {EnvEmpty, EnvPlain, EnvRebound}

\* importlib.import_module(modname): the module, or the exception raised.
import_module(e, modname) ==
    IF StartsWith(modname, DOT) THEN "TypeError"
    ELSE IF modname = <<>> THEN "ValueError"
    ELSE IF modname \in e.modules THEN "module"
    ELSE "ModuleNotFoundError"

Returned(v, how) == [kind |-> "return", value |-> v, via |-> how]

Raised(exc) == [kind |-> "raise", value |-> <<>>, via |-> exc]

\* The exceptions the two except clauses catch.
Caught == {"ModuleNotFoundError", "AttributeError"}

\* Step1 returning the path the object was reached by: the module named in
\* the reference and the object's qualified name.
Step1_aliasPath(e, name) ==
    LET modname == RPartition(name).head
        objname == RPartition(name).tail
        imp == import_module(e, modname)
    IN  IF imp # "module" THEN Raised(imp)
        ELSE IF <<modname, objname>> \notin DOMAIN e.modattr
        THEN Raised("AttributeError")
        ELSE LET o == e.obj[e.modattr[<<modname, objname>>]]
             IN  IF o.mod = Missing \/ o.qualname = Missing
                 THEN Raised("AttributeError")
                 ELSE Returned(Dotted(modname, o.qualname), "step1")

\* Lines 110-116: the first try block; Raised("AttributeError") or
\* Raised("ModuleNotFoundError") where the except clause takes over.
Step1(e, name) ==
    LET modname == RPartition(name).head
        objname == RPartition(name).tail
        imp == import_module(e, modname)
    IN  IF imp # "module" THEN Raised(imp)
        ELSE IF <<modname, objname>> \notin DOMAIN e.modattr
        THEN Raised("AttributeError")
        ELSE LET o == e.obj[e.modattr[<<modname, objname>>]]
             IN  IF o.mod = Missing \/ o.qualname = Missing
                 THEN Raised("AttributeError")
                 ELSE Returned(Dotted(o.mod, o.qualname), "step1")

\* Step2 returning the path the method was reached by instead of the
\* class's own module and qualified name.
Step2_aliasPath(e, name) ==
    LET modname1 == RPartition(name).head
        objname == RPartition(name).tail
        modname == RPartition(modname1).head
        clsname == RPartition(modname1).tail
        imp == import_module(e, modname)
    IN  IF imp # "module" THEN Raised(imp)
        ELSE IF <<modname, clsname>> \notin DOMAIN e.modattr
        THEN Raised("AttributeError")
        ELSE LET c == e.modattr[<<modname, clsname>>]
             IN  IF <<c, objname>> \notin DOMAIN e.objattr
                 THEN Raised("AttributeError")
                 ELSE LET cls == e.obj[c]
                          meth == e.obj[e.objattr[<<c, objname>>]]
                      IN  IF cls.mod = Missing \/ cls.qualname = Missing
                                 \/ meth.name = Missing
                          THEN Raised("AttributeError")
                          ELSE Returned(Dotted(Dotted(modname, clsname),
                                               meth.name), "step2")

\* Lines 118-123: the second try block, on the modname of the first.
Step2(e, name) ==
    LET modname1 == RPartition(name).head
        objname == RPartition(name).tail
        modname == RPartition(modname1).head
        clsname == RPartition(modname1).tail
        imp == import_module(e, modname)
    IN  IF imp # "module" THEN Raised(imp)
        ELSE IF <<modname, clsname>> \notin DOMAIN e.modattr
        THEN Raised("AttributeError")
        ELSE LET c == e.modattr[<<modname, clsname>>]
             IN  IF <<c, objname>> \notin DOMAIN e.objattr
                 THEN Raised("AttributeError")
                 ELSE LET cls == e.obj[c]
                          meth == e.obj[e.objattr[<<c, objname>>]]
                      IN  IF cls.mod = Missing \/ cls.qualname = Missing
                                 \/ meth.name = Missing
                          THEN Raised("AttributeError")
                          ELSE Returned(Dotted(Dotted(cls.mod, cls.qualname),
                                               meth.name), "step2")

\* get_canonical_name returning the reassigned local modname in the last
\* except clause instead of self.name.
get_canonical_name_returnsModname(e, name) ==
    LET r1 == Step1(e, name)
        r2 == Step2(e, name)
    IN  IF r1.kind = "return" \/ r1.via \notin Caught THEN r1
        ELSE IF r2.kind = "return" \/ r2.via \notin Caught THEN r2
        ELSE Returned(RPartition(RPartition(name).head).head, "fallback")

\* API.get_canonical_name(self), with self.name = name: the string returned,
\* or the exception that leaves the method.
get_canonical_name(e, name) ==
    LET r1 == Step1(e, name)
        r2 == Step2(e, name)
    IN  IF r1.kind = "return" \/ r1.via \notin Caught THEN r1
        ELSE IF r2.kind = "return" \/ r2.via \notin Caught THEN r2
        ELSE Returned(name, "fallback")

\* s.split(".")
RECURSIVE Split(_)
Split(s) ==
    IF \A i \in 1..Len(s) : s[i] # "." THEN <<s>>
    ELSE Append(Split(RPartition(s).head), RPartition(s).tail)

\* API.has_private_name(self)
has_private_name(api) ==
    LET name_has_underscore ==
            StartsWith(Split(api.name)[Len(Split(api.name))], UNDERSCORE)
        is_internal == Contains(api.name, INTERNAL_MARKER)
    IN  name_has_underscore \/ is_internal

\* API.is_public(self)
is_public(api) == api.annotation_type = "PublicAPI"

\* API.is_developer(self)
is_developer(api) == api.annotation_type = "DeveloperAPI"

\* API.is_deprecated(self)
is_deprecated(api) == api.annotation_type = "Deprecated"

\* class AnnotationType
AnnotationType == {"PublicAPI", "DeveloperAPI", "Deprecated", "Unknown"}

\* API.__eq__(self, other); both names canonicalize without raising here.
ApiEq(e, a, b) ==
    get_canonical_name(e, a.name).value = get_canonical_name(e, b.name).value

\* set.add(api): API hashes and compares by canonical name.
SetAdd(e, S, api) == IF \E x \in S : ApiEq(e, x, api) THEN S ELSE S \cup {api}

---------------------------------------------------------------------------
(* Names handed to get_canonical_name.                                     *)

SegPool == {N_pkg, N_sub, N_real, N_Alias, N_Thing, N_method, N_Old, <<>>}

\* ".".join(segs)
RECURSIVE Join(_)
Join(segs) ==
    IF Len(segs) = 1 THEN segs[1]
    ELSE Dotted(Join(SubSeq(segs, 1, Len(segs) - 1)), segs[Len(segs)])

NamePool ==
    {Join(segs) : segs \in UNION {[1..n -> SegPool] : n \in 1..MaxSegs}}
        \cup {N_foo, N_pkg_internal_fn, N_nomod_sub_x}

NoOutcome == [kind |-> "none", value |-> <<>>, via |-> "none"]

\* The wrapped function before any call (line 297).
OneshotIdle ==
    /\ last_caller = NoneVal
    /\ ran = 0
    /\ calls = <<>>

\* No Nav object.
NavIdle ==
    /\ tree = <<>>
    /\ nodes = <<>>
    /\ flat = <<>>
    /\ before = <<>>
    /\ insert_raised = FALSE

CanonIdle ==
    /\ entry = <<>>
    /\ canon = NoOutcome
    /\ recanon = NoOutcome
    /\ pcC = "off"

---------------------------------------------------------------------------
(* _validate_documented_public_apis(api_in_codes, api_in_docs, white_list)  *)

\* A dict of main, as the function from its keys to its values.
EmptyDict == [k \in {} |-> NoneAPI]

\* d[k] = v
DictSet(d, k, v) == [x \in DOMAIN d \cup {k} |-> IF x = k THEN v ELSE d[x]]

\* The six sets of lines 26-31, empty.
NoSets ==
    [good_apis |-> {},
     private_documented_apis |-> {},
     deprecated_documented_apis |-> {},
     undocumented_public_apis |-> {},
     undocumented_deprecated_public_apis |-> {},
     public_but_private_name |-> {}]

\* Classify with undocumented_public_apis.add(api) moved out of the else:
\* a documented public API is also reported as undocumented.
Classify_addsOutsideElse(e, acc, code_api_name, api, api_in_docs) ==
    IF is_public(api)
    THEN IF code_api_name \in DOMAIN api_in_docs
         THEN [acc EXCEPT !.good_apis = SetAdd(e, @, api),
                          !.undocumented_public_apis = SetAdd(e, @, api)]
         ELSE [acc EXCEPT
                  !.public_but_private_name =
                      IF has_private_name(api) THEN SetAdd(e, @, api) ELSE @,
                  !.undocumented_public_apis = SetAdd(e, @, api)]
    ELSE IF is_developer(api) THEN acc
    ELSE IF is_deprecated(api)
    THEN IF code_api_name \in DOMAIN api_in_docs
         THEN [acc EXCEPT !.deprecated_documented_apis = SetAdd(e, @, api)]
         ELSE [acc EXCEPT !.undocumented_deprecated_public_apis = SetAdd(e, @, api)]
    ELSE IF code_api_name \in DOMAIN api_in_docs
         THEN [acc EXCEPT !.private_documented_apis = SetAdd(e, @, api)]
         ELSE acc

\* Classify with the test of the last branch dropped: an API without
\* annotation is reported as documented whether or not it is.
Classify_unknownAlwaysReported(e, acc, code_api_name, api, api_in_docs) ==
    IF is_public(api)
    THEN IF code_api_name \in DOMAIN api_in_docs
         THEN [acc EXCEPT !.good_apis = SetAdd(e, @, api)]
         ELSE [acc EXCEPT
                  !.public_but_private_name =
                      IF has_private_name(api) THEN SetAdd(e, @, api) ELSE @,
                  !.undocumented_public_apis = SetAdd(e, @, api)]
    ELSE IF is_developer(api) THEN acc
    ELSE IF is_deprecated(api)
    THEN IF code_api_name \in DOMAIN api_in_docs
         THEN [acc EXCEPT !.deprecated_documented_apis = SetAdd(e, @, api)]
         ELSE [acc EXCEPT !.undocumented_deprecated_public_apis = SetAdd(e, @, api)]
    ELSE [acc EXCEPT !.private_documented_apis = SetAdd(e, @, api)]

\* Lines 34-51: the body of the loop, for one item of api_in_codes.
Classify(e, acc, code_api_name, api, api_in_docs) ==
    IF is_public(api)
    THEN IF code_api_name \in DOMAIN api_in_docs
         THEN [acc EXCEPT !.good_apis = SetAdd(e, @, api)]
         ELSE [acc EXCEPT
                  !.public_but_private_name =
                      IF has_private_name(api) THEN SetAdd(e, @, api) ELSE @,
                  !.undocumented_public_apis = SetAdd(e, @, api)]
    ELSE IF is_developer(api) THEN acc
    ELSE IF is_deprecated(api)
    THEN IF code_api_name \in DOMAIN api_in_docs
         THEN [acc EXCEPT !.deprecated_documented_apis = SetAdd(e, @, api)]
         ELSE [acc EXCEPT !.undocumented_deprecated_public_apis = SetAdd(e, @, api)]
    ELSE IF code_api_name \in DOMAIN api_in_docs
         THEN [acc EXCEPT !.private_documented_apis = SetAdd(e, @, api)]
         ELSE acc

\* Line 33: the loop over the items not yet visited. The keys of the dict are
\* distinct canonical names, so the sets do not depend on the order.
RECURSIVE ValidateLoop(_, _, _, _, _)
ValidateLoop(e, api_in_codes, api_in_docs, keys, acc) ==
    IF keys = {} THEN acc
    ELSE LET k == CHOOSE x \in keys : TRUE
         IN  ValidateLoop(e, api_in_codes, api_in_docs, keys \ {k},
                          Classify(e, acc, k, api_in_codes[k], api_in_docs))

validate_documented_public_apis(e, api_in_codes, api_in_docs) ==
    ValidateLoop(e, api_in_codes, api_in_docs, DOMAIN api_in_codes, NoSets)

\* Raw names of the entries the code scan and the documents supply.
CodeNames ==
    {N_pkg_sub_Alias, N_pkg_real_Thing_method, N_pkg_internal_fn,
     N_internal_sub_foo, N_pkg_internal_foo, N_nomod_sub_x, N_foo}

DocNames ==
    {N_pkg_sub_Alias, N_pkg_sub_Alias_method, N_pkg_internal_fn, N_nomod_sub_x}

CodeApis == {API(n, a, "Function") : n \in CodeNames, a \in AnnotationType}

DocApis == {API(n, "PublicAPI", "Class") : n \in DocNames}

ReconIdle ==
    /\ apis_in_docs = EmptyDict
    /\ apis_in_code = EmptyDict
    /\ validated = NoSets
    /\ pcR = "off"

---------------------------------------------------------------------------
(* Documents the parser is run on.                                         *)

L_currentmodule ==
    <<".","."," ","c","u","r","r","e","n","t","m","o","d","u","l","e",":",":"," ","p","k","g",".","m","o","d","\n">>
\* a second namespace directive
L_currentmodule_q ==
    <<".","."," ","c","u","r","r","e","n","t","m","o","d","u","l","e",":",":"," ","q","\n">>
L_autosummary ==
    <<".","."," ","a","u","t","o","s","u","m","m","a","r","y",":",":","\n">>
\* the list header followed by a space
L_autosummary_sp ==
    <<".","."," ","a","u","t","o","s","u","m","m","a","r","y",":",":"," ","\n">>
L_option ==
    <<" "," "," "," ",":","n","o","s","i","g","n","a","t","u","r","e","s",":","\n">>
L_blank ==
    <<"\n">>
L_foo ==
    <<" "," "," "," ","~","p","k","g",".","f","o","o","\n">>
L_bar ==
    <<" "," "," "," ","p","k","g",".","b","a","r","\n">>
\* a reference line that is only the shorten marker
L_marker ==
    <<" "," "," "," ","~","\n">>
L_other ==
    <<"o","t","h","e","r","_","t","e","x","t","\n">>
L_autoclass ==
    <<".","."," ","a","u","t","o","c","l","a","s","s",":",":"," ","~","p","k","g",".","W","i","d","g","e","t","\n">>
\* the single-reference header with no identifier
L_autoclass_noid ==
    <<".","."," ","a","u","t","o","c","l","a","s","s",":",":","\n">>
N_pkg_mod ==
    <<"p","k","g",".","m","o","d">>
N_q_pkg_Widget ==
    <<"q",".","p","k","g",".","W","i","d","g","e","t">>
N_pkg_mod_pkg_foo ==
    <<"p","k","g",".","m","o","d",".","p","k","g",".","f","o","o">>
N_pkg_mod_pkg_bar ==
    <<"p","k","g",".","m","o","d",".","p","k","g",".","b","a","r">>
N_pkg_mod_Widget ==
    <<"p","k","g",".","m","o","d",".","W","i","d","g","e","t">>
N_pkg_mod_pkg_Widget ==
    <<"p","k","g",".","m","o","d",".","p","k","g",".","W","i","d","g","e","t">>

\* Lines the bounded documents are built from.
LinePool ==
    {L_currentmodule, L_currentmodule_q, L_autosummary, L_autosummary_sp,
     L_option, L_blank, L_foo, L_marker, L_other, L_autoclass,
     L_autoclass_noid}

\* The list-block example: a namespace directive, then the block, then text.
ListExample ==
    <<L_currentmodule, L_autosummary, L_option, L_blank, L_foo, L_bar, L_other>>

\* The single-reference example under namespace pkg.mod.
ClassExample == <<L_currentmodule, L_autoclass>>

Documents ==
    UNION {[1..n -> LinePool] : n \in 0..MaxLines} \cup {ListExample}

\* Documents parsed after the first; they hold no namespace directive.
FollowUps == {<<L_autoclass>>, <<L_autosummary, L_foo>>}

---------------------------------------------------------------------------
(* What the reference lines of a block stand for (history only).           *)

\* An indented, non-blank, non-option line.
IsReferenceLine(l) ==
    MatchesSpace(l) /\ Strip(l) # <<>> /\ ~StartsWith(Strip(l), COLON)

\* Function reference: namespace + "." + identifier, marker removed.
ReferenceOf(l, namespace) ==
    LET identifier == RemovePrefix(Strip(l), SPHINX_AUTODOC_SHORTNAME)
    IN  API(IF Truthy(namespace) THEN Dotted(namespace, identifier) ELSE identifier,
            "PublicAPI", "Function")

---------------------------------------------------------------------------
(* parse_autodoc_directives(rst_file)                                      *)

\* f.readline(): the next line, or "" at end of file.
ReadLine ==
    IF pos < Len(rst_file)
    THEN line' = rst_file[pos + 1] /\ pos' = pos + 1
    ELSE line' = EOF /\ pos' = pos

\* A non-blank line that does not start with white space ends a block.
EndsBlock(l) == Strip(l) # <<>> /\ ~MatchesSpace(l)

InitParse ==
    /\ \/ exists = TRUE /\ rst_file \in Documents
       \/ exists = FALSE /\ rst_file = <<>>
    /\ pos = 0
    /\ line = EOF
    /\ module = NoneVal
    /\ apis = <<>>
    /\ doc = EOF
    /\ pc = "start"
    /\ result = <<>>
    /\ examined = <<>>
    /\ collected = {}
    /\ terms = {}
    /\ expected = <<>>
    /\ ndocs = 0
    /\ env = EnvEmpty
    /\ CanonIdle
    /\ ReconIdle
    /\ OneshotIdle
    /\ NavIdle

\* Open leaving `module` as the previous parse left it.
Open_keepsNamespace ==
    /\ pc = "start"
    /\ IF exists
       THEN /\ apis' = <<>>
            /\ module' = module
            /\ ReadLine
            /\ pc' = "main"
            /\ UNCHANGED result
       ELSE /\ result' = <<>>
            /\ pc' = "done"
            /\ UNCHANGED <<line, pos, apis, module>>
    /\ UNCHANGED <<exists, rst_file, doc, examined, collected, terms, expected>>
    /\ UNCHANGED <<ndocs, env, canonVars, reconVars, oneshotVars, navVars>>

\* Lines 119-125: the existence test (return [] when it fails), apis = [],
\* module = None, the first readline.
Open ==
    /\ pc = "start"
    /\ IF exists
       THEN /\ apis' = <<>>
            /\ module' = NoneVal
            /\ ReadLine
            /\ pc' = "main"
            /\ UNCHANGED result
       ELSE /\ result' = <<>>
            /\ pc' = "done"
            /\ UNCHANGED <<line, pos, apis, module>>
    /\ UNCHANGED <<exists, rst_file, doc, examined, collected, terms, expected>>
    /\ UNCHANGED <<ndocs, env, canonVars, reconVars, oneshotVars, navVars>>

\* MainStep without the readline of line 152: a line that is not a list
\* header is examined again.
MainStep_noRead ==
    /\ pc = "main"
    /\ line # EOF
    /\ LET module1 ==
               IF StartsWith(line, SPHINX_CURRENTMODULE_HEADER)
               THEN Strip(DropFirst(line, Len(SPHINX_CURRENTMODULE_HEADER)))
               ELSE module
           apis1 ==
               IF StartsWith(line, SPHINX_AUTOCLASS_HEADER)
               THEN Append(apis, from_autoclass(line, module1))
               ELSE apis
       IN  /\ module' = module1
           /\ apis' = apis1
    /\ IF StartsWith(line, SPHINX_AUTOSUMMARY_HEADER)
       THEN doc' = line /\ pc' = "collect" /\ ReadLine
       ELSE doc' = doc /\ pc' = "main" /\ UNCHANGED <<line, pos>>
    /\ examined' = Append(examined, pos)
    /\ UNCHANGED <<exists, rst_file, result, collected, terms, expected>>
    /\ UNCHANGED <<ndocs, env, canonVars, reconVars, oneshotVars, navVars>>

\* Lines 126-138 and 152: one iteration of the main loop, up to the inner loop.
MainStep ==
    /\ pc = "main"
    /\ line # EOF
    /\ LET module1 ==
               IF StartsWith(line, SPHINX_CURRENTMODULE_HEADER)
               THEN Strip(DropFirst(line, Len(SPHINX_CURRENTMODULE_HEADER)))
               ELSE module
           apis1 ==
               IF StartsWith(line, SPHINX_AUTOCLASS_HEADER)
               THEN Append(apis, from_autoclass(line, module1))
               ELSE apis
       IN  /\ module' = module1
           /\ apis' = apis1
    /\ IF StartsWith(line, SPHINX_AUTOSUMMARY_HEADER)
       THEN doc' = line /\ pc' = "collect"
       ELSE doc' = doc /\ pc' = "main"
    /\ ReadLine
    /\ examined' = Append(examined, pos)
    /\ UNCHANGED <<exists, rst_file, result, collected, terms, expected>>
    /\ UNCHANGED <<ndocs, env, canonVars, reconVars, oneshotVars, navVars>>

\* CollectStep reading one more line after the terminator, which drops it.
CollectStep_dropsTerminator ==
    /\ pc = "collect"
    /\ line # EOF
    /\ doc' = doc \o line
    /\ ReadLine
    /\ IF EndsBlock(line)
       THEN /\ apis' = apis \o from_autosummary(doc', module)
            /\ pc' = "main"
            /\ terms' = terms \cup {pos}
            /\ UNCHANGED <<collected, expected>>
       ELSE /\ pc' = "collect"
            /\ collected' = collected \cup {pos}
            /\ expected' = IF IsReferenceLine(line)
                           THEN Append(expected, ReferenceOf(line, module))
                           ELSE expected
            /\ UNCHANGED <<apis, terms>>
    /\ UNCHANGED <<exists, rst_file, module, result, examined>>
    /\ UNCHANGED <<ndocs, env, canonVars, reconVars, oneshotVars, navVars>>

\* Lines 140-150 with `line` non-empty: one iteration of the inner loop; at a
\* terminator the break, apis.extend(...) and continue, which keeps `line`.
CollectStep ==
    /\ pc = "collect"
    /\ line # EOF
    /\ doc' = doc \o line
    /\ IF EndsBlock(line)
       THEN /\ apis' = apis \o from_autosummary(doc', module)
            /\ pc' = "main"
            /\ terms' = terms \cup {pos}
            /\ UNCHANGED <<line, pos, collected, expected>>
       ELSE /\ ReadLine
            /\ pc' = "collect"
            /\ collected' = collected \cup {pos}
            /\ expected' = IF IsReferenceLine(line)
                           THEN Append(expected, ReferenceOf(line, module))
                           ELSE expected
            /\ UNCHANGED <<apis, terms>>
    /\ UNCHANGED <<exists, rst_file, module, result, examined>>
    /\ UNCHANGED <<ndocs, env, canonVars, reconVars, oneshotVars, navVars>>

\* Lines 140, 149-150 at end of file: the inner loop ends without a terminator.
CollectEnd ==
    /\ pc = "collect"
    /\ line = EOF
    /\ apis' = apis \o from_autosummary(doc, module)
    /\ pc' = "main"
    /\ UNCHANGED <<exists, rst_file, pos, line, module, doc, result,
                   examined, collected, terms, expected>>
    /\ UNCHANGED <<ndocs, env, canonVars, reconVars, oneshotVars, navVars>>

\* Lines 126 and 154: the main loop ends; the None entries are filtered out.
Return ==
    /\ pc = "main"
    /\ line = EOF
    /\ result' = SelectSeq(apis, LAMBDA a : a # NoneAPI)
    /\ pc' = "done"
    /\ UNCHANGED <<exists, rst_file, pos, line, module, apis, doc,
                   examined, collected, terms, expected>>
    /\ UNCHANGED <<ndocs, env, canonVars, reconVars, oneshotVars, navVars>>

\* get_autodoc_apis, lines 93-94: the next document is handed to a new call
\* of parse_autodoc_directives, which opens it at its first line; the locals
\* apis and module are assigned by lines 122-123 (Open).
NextDocument ==
    /\ pc = "done"
    /\ ndocs < MaxFollowUps
    /\ ndocs' = ndocs + 1
    /\ exists' = TRUE
    /\ rst_file' \in FollowUps
    /\ pos' = 0
    /\ line' = EOF
    /\ doc' = EOF
    /\ pc' = "start"
    /\ examined' = <<>>
    /\ collected' = {}
    /\ terms' = {}
    /\ expected' = <<>>
    /\ UNCHANGED <<module, apis, result>>
    /\ UNCHANGED <<env, canonVars, reconVars, oneshotVars, navVars>>

NextParse ==
    Open \/ MainStep \/ CollectStep \/ CollectEnd \/ Return \/ NextDocument

SpecParse == InitParse /\ [][NextParse]_vars

---------------------------------------------------------------------------
(* Canonicalizing one name, and then the name that came out.               *)

ParseIdle ==
    /\ exists = FALSE
    /\ rst_file = <<>>
    /\ pos = 0
    /\ line = EOF
    /\ module = NoneVal
    /\ apis = <<>>
    /\ doc = EOF
    /\ pc = "off"
    /\ result = <<>>
    /\ examined = <<>>
    /\ collected = {}
    /\ terms = {}
    /\ expected = <<>>
    /\ ndocs = 0

InitCanon ==
    /\ ParseIdle
    /\ OneshotIdle
    /\ NavIdle
    /\ ReconIdle
    /\ env \in EnvPool
    /\ entry = <<>>
    /\ canon = NoOutcome
    /\ recanon = NoOutcome
    /\ pcC = "start"

\* api.get_canonical_name() for an API named n.
Canonicalize ==
    /\ pcC = "start"
    /\ \E n \in NamePool :
           /\ entry' = n
           /\ canon' = get_canonical_name(env, n)
    /\ pcC' = "named"
    /\ UNCHANGED <<parseVars, env, recanon, reconVars, oneshotVars, navVars>>

\* get_canonical_name() for an API whose name is the string just returned.
Recanonicalize ==
    /\ pcC = "named"
    /\ canon.kind = "return"
    /\ recanon' = get_canonical_name(env, canon.value)
    /\ pcC' = "again"
    /\ UNCHANGED <<parseVars, env, entry, canon, reconVars, oneshotVars, navVars>>

NextCanon == Canonicalize \/ Recanonicalize

SpecCanon == InitCanon /\ [][NextCanon]_vars

---------------------------------------------------------------------------
(* main: the two inventories, then the validation.                         *)

InitRecon ==
    /\ ParseIdle
    /\ OneshotIdle
    /\ NavIdle
    /\ CanonIdle
    /\ env \in EnvPool
    /\ apis_in_docs = EmptyDict
    /\ apis_in_code = EmptyDict
    /\ validated = NoSets
    /\ pcR = "docs"

\* Lines 173-176, one API of one document; an exception of
\* get_canonical_name leaves main.
AddDocApi ==
    /\ pcR = "docs"
    /\ \E api \in DocApis :
           LET c == get_canonical_name(env, api.name)
           IN  IF c.kind = "raise"
               THEN pcR' = "raised" /\ UNCHANGED apis_in_docs
               ELSE /\ Cardinality(DOMAIN apis_in_docs \cup {c.value}) <= MaxDocApis
                    /\ apis_in_docs' = DictSet(apis_in_docs, c.value, api)
                    /\ pcR' = "docs"
    /\ UNCHANGED <<parseVars, env, canonVars, apis_in_code, validated>>
    /\ UNCHANGED <<oneshotVars, navVars>>

\* Lines 178-182, one API of one module.
AddCodeApi ==
    /\ pcR \in {"docs", "code"}
    /\ \E api \in CodeApis :
           LET c == get_canonical_name(env, api.name)
           IN  IF c.kind = "raise"
               THEN pcR' = "raised" /\ UNCHANGED apis_in_code
               ELSE /\ Cardinality(DOMAIN apis_in_code \cup {c.value}) <= MaxCodeApis
                    /\ apis_in_code' = DictSet(apis_in_code, c.value, api)
                    /\ pcR' = "code"
    /\ UNCHANGED <<parseVars, env, canonVars, apis_in_docs, validated>>
    /\ UNCHANGED <<oneshotVars, navVars>>

\* Lines 184-191: the call of _validate_documented_public_apis.
Validate ==
    /\ pcR \in {"docs", "code"}
    /\ validated' = validate_documented_public_apis(env, apis_in_code, apis_in_docs)
    /\ pcR' = "done"
    /\ UNCHANGED <<parseVars, env, canonVars, apis_in_docs, apis_in_code>>
    /\ UNCHANGED <<oneshotVars, navVars>>

NextRecon == AddDocApi \/ AddCodeApi \/ Validate

SpecRecon == InitRecon /\ [][NextRecon]_vars

---------------------------------------------------------------------------
(* oneshot(func): calls of the wrapped function.                           *)

\* inspect.stack()[-1] of a call: the file name and line number of the
\* outermost frame.
Callers == {<<"driver.py", 3>>, <<"worker.py", 7>>}

InitOneshot ==
    /\ ParseIdle
    /\ env = EnvEmpty
    /\ CanonIdle
    /\ ReconIdle
    /\ NavIdle
    /\ last_caller = NoneVal
    /\ ran = 0
    /\ calls = <<>>

\* Lines 283-295: wrapped(force) called from `caller`. func() either returns
\* or raises; the debug message reads last_caller.filename, which None
\* does not have.
Call ==
    /\ Len(calls) < MaxCalls
    /\ \E force \in BOOLEAN, caller \in Callers, func_raises \in BOOLEAN :
           IF ~(last_caller # NoneVal \/ force)
           THEN /\ last_caller' = caller
                /\ ran' = ran + 1
                /\ calls' = Append(calls,
                       [force |-> force, caller |-> caller,
                        outcome |-> IF func_raises THEN "ran and raised"
                                    ELSE "ran"])
           ELSE /\ calls' = Append(calls,
                       [force |-> force, caller |-> caller,
                        outcome |-> IF last_caller = NoneVal
                                    THEN "AttributeError"
                                    ELSE "skipped"])
                /\ UNCHANGED <<last_caller, ran>>
    /\ UNCHANGED <<parseVars, env, canonVars, reconVars, navVars>>

NextOneshot == Call

SpecOneshot == InitOneshot /\ [][NextOneshot]_vars

---------------------------------------------------------------------------
(* Nav: the navigation tree and its flat index.                            *)

\* Page files.
Files == {"a", "b", "c", "d"}

\* An entry object {'file': f}, and one with 'sections'.
Entry(f) == [file |-> f, has_sections |-> FALSE, sections |-> <<>>]

EntryWith(f, secs) == [file |-> f, has_sections |-> TRUE, sections |-> secs]

\* dict.update
DictUpdate(d, e) ==
    [x \in DOMAIN d \cup DOMAIN e |-> IF x \in DOMAIN e THEN e[x] ELSE d[x]]

\* Lines 43-51: to_flat(navs) over the entry objects ns; the loop from the
\* i-th entry on, with the dict built so far.
RECURSIVE ToFlatLoop(_, _, _, _)
ToFlatLoop(ns, navs, i, acc) ==
    IF i > Len(navs) THEN acc
    ELSE LET nav == navs[i]
             acc1 == DictSet(acc, ns[nav].file, nav)
             acc2 == IF ns[nav].has_sections
                     THEN DictUpdate(acc1,
                              ToFlatLoop(ns, ns[nav].sections, 1, EmptyDict))
                     ELSE acc1
         IN  ToFlatLoop(ns, navs, i + 1, acc2)

to_flat(ns, navs) == ToFlatLoop(ns, navs, 1, EmptyDict)

\* Trees a Nav is constructed from, with their entry objects.
InitialTrees ==
    {[tree |-> <<>>, nodes |-> EmptyDict],
     [tree |-> <<"a">>, nodes |-> [f \in {"a"} |-> Entry(f)]],
     [tree |-> <<"a">>,
      nodes |-> [f \in {"a", "b"} |->
                    IF f = "a" THEN EntryWith("a", <<"b">>) ELSE Entry(f)]],
     [tree |-> <<"a", "b">>, nodes |-> [f \in {"a", "b"} |-> Entry(f)]]}

AncestorLists == UNION {[1..n -> Files] : n \in 0..MaxAncestors}

\* Lines 6-8: Nav(tree).
InitNav ==
    /\ ParseIdle
    /\ env = EnvEmpty
    /\ CanonIdle
    /\ ReconIdle
    /\ OneshotIdle
    /\ \E t \in InitialTrees :
           /\ tree = t.tree
           /\ nodes = t.nodes
           /\ flat = to_flat(t.nodes, t.tree)
           /\ before = [flat |-> to_flat(t.nodes, t.tree), nodes |-> t.nodes]
    /\ insert_raised = FALSE

\* Lines 25-38: the loop of insert from the i-th ancestor on (the first has
\* i = 1); st holds flat, the entry objects, and whether ValueError was raised.
RECURSIVE InsertLoop(_, _, _)
InsertLoop(st, ancestors, i) ==
    IF i > Len(ancestors) THEN st
    ELSE LET ancestor == ancestors[i]
         IN  IF ancestor \in DOMAIN st.flat
             THEN InsertLoop(st, ancestors, i + 1)
             ELSE LET nodes1 == DictSet(st.nodes, ancestor, Entry(ancestor))
                      flat1 == DictSet(st.flat, ancestor, ancestor)
                  IN  IF i = 1
                      THEN [flat |-> flat1, nodes |-> nodes1, raised |-> TRUE]
                      ELSE LET parent == flat1[ancestors[i - 1]]
                               nodes2 ==
                                   DictSet(nodes1, parent,
                                       EntryWith(nodes1[parent].file,
                                           Append(nodes1[parent].sections,
                                                  flat1[ancestor])))
                           IN  InsertLoop([flat |-> flat1, nodes |-> nodes2,
                                           raised |-> FALSE],
                                          ancestors, i + 1)

\* Lines 24-38: nav.insert(ancestors).
Insert ==
    \E ancestors \in AncestorLists :
        LET st == InsertLoop([flat |-> flat, nodes |-> nodes, raised |-> FALSE],
                             ancestors, 1)
        IN  /\ flat' = st.flat
            /\ nodes' = st.nodes
            /\ insert_raised' = st.raised
            /\ before' = [flat |-> flat, nodes |-> nodes]
            /\ UNCHANGED tree
            /\ UNCHANGED <<parseVars, env, canonVars, reconVars, oneshotVars>>

NextNav == Insert

SpecNav == InitNav /\ [][NextNav]_vars

---------------------------------------------------------------------------
(* Properties of the directive parser.                                     *)

Range(f) == {f[i] : i \in DOMAIN f}

IsClass(a) == a # NoneAPI /\ a.code_type = "Class"

IsFunction(a) == a # NoneAPI /\ a.code_type = "Function"

\* What the main loop does with line l under namespace m, whatever came before.
MainEffect(l, m) ==
    /\ StartsWith(l, SPHINX_CURRENTMODULE_HEADER)
           => module' = Strip(DropFirst(l, Len(SPHINX_CURRENTMODULE_HEADER)))
    /\ ~StartsWith(l, SPHINX_CURRENTMODULE_HEADER) => module' = m
    /\ StartsWith(l, SPHINX_AUTOCLASS_HEADER)
           => /\ Len(apis') = Len(apis) + 1
              /\ SubSeq(apis', 1, Len(apis)) = apis
              /\ IsClass(apis'[Len(apis')])
              /\ apis'[Len(apis')].name =
                     LET id == RemovePrefix(
                                   Strip(DropFirst(Strip(l), Len(SPHINX_AUTOCLASS_HEADER))),
                                   SPHINX_AUTODOC_SHORTNAME)
                     IN  IF Truthy(m) THEN Dotted(m, id) ELSE id
    /\ ~StartsWith(l, SPHINX_AUTOCLASS_HEADER) => apis' = apis
    /\ StartsWith(l, SPHINX_AUTOSUMMARY_HEADER) => pc' = "collect" /\ doc' = l
    /\ ~StartsWith(l, SPHINX_AUTOSUMMARY_HEADER) => pc' = "main"

\* C3: a line that ended a list-reference block is tested by the main loop
\* exactly once, with the effect it has outside a block (a namespace
\* directive sets the namespace, a single-reference directive yields its
\* Class reference, a list header opens a new block); the scan tests or
\* collects every line of the document and none twice.
C3_TerminatorReexamined ==
    /\ [](/\ \A i, j \in 1..Len(examined) : i < j => examined[i] < examined[j]
          /\ collected \cap Range(examined) = {}
          /\ \A t \in terms :
                 \/ t \in Range(examined)
                 \/ pc = "main" /\ pos = t /\ line = rst_file[t]
          /\ pc = "done" /\ exists
                 => Range(examined) \cup collected = 1..Len(rst_file))
    /\ [][pc = "main" /\ line # EOF /\ pos \in terms
              => /\ pos \notin Range(examined)
                 /\ examined' = Append(examined, pos)
                 /\ MainEffect(line, module)]_vars

\* A block ended at a list header, which opened a block of its own that
\* produced a reference.
C3_Witness ==
    /\ pc = "done"
    /\ \E t \in terms :
           /\ StartsWith(rst_file[t], SPHINX_AUTOSUMMARY_HEADER)
           /\ t \in Range(examined)
           /\ \E u \in collected : u > t /\ IsReferenceLine(rst_file[u])
    /\ result # <<>>

\* A single-reference directive line with nothing after the header.
IsBareAutoclass(l) ==
    StartsWith(l, SPHINX_AUTOCLASS_HEADER)
        /\ Strip(DropFirst(l, Len(SPHINX_AUTOCLASS_HEADER))) = <<>>

\* C4: a single-reference directive line with no identifier after the header
\* contributes no entry: the Class references returned are one per
\* single-reference line that has an identifier.
C4_BareHeaderYieldsNothing ==
    pc = "done" =>
        Len(SelectSeq(result, IsClass)) =
            Cardinality({i \in 1..Len(rst_file) :
                             /\ StartsWith(rst_file[i], SPHINX_AUTOCLASS_HEADER)
                             /\ ~IsBareAutoclass(rst_file[i])})

\* C5: every entry the parser returns has a name that is non-empty and does
\* not end with the "." separator.
C5_NamesWellFormed ==
    pc = "done" =>
        \A i \in 1..Len(result) :
            /\ result[i].name # <<>>
            /\ result[i].name[Len(result[i].name)] # "."

\* C6: whenever the main loop is about to test a line, the Function
\* references produced so far are, in order, one per reference line of the
\* blocks collected so far, named namespace + "." + identifier with the
\* marker removed; the list-block example yields pkg.mod.pkg.foo and
\* pkg.mod.pkg.bar.
C6_BlockReferences ==
    /\ pc \in {"main", "done"} => SelectSeq(apis, IsFunction) = expected
    /\ pc = "done" /\ rst_file = ListExample
           => result = <<API(N_pkg_mod_pkg_foo, "PublicAPI", "Function"),
                         API(N_pkg_mod_pkg_bar, "PublicAPI", "Function")>>

\* C7 as stated: `.. autoclass:: ~pkg.Widget` under namespace pkg.mod yields
\* exactly one reference, Class and PublicAPI, named pkg.mod.Widget.
C7_ClassExampleAsStated ==
    pc = "done" /\ rst_file = ClassExample
        => result = <<API(N_pkg_mod_Widget, "PublicAPI", "Class")>>

\* C7 amended: the one reference is named pkg.mod.pkg.Widget: only the marker
\* is stripped, and the namespace is prefixed to the whole identifier.
C7_ClassExample ==
    pc = "done" /\ rst_file = ClassExample
        => result = <<API(N_pkg_mod_pkg_Widget, "PublicAPI", "Class")>>

C7_Witness == pc = "done" /\ rst_file = ClassExample /\ Len(result) = 1

---------------------------------------------------------------------------
(* Properties of the canonicalizer.                                        *)

\* C2: canonicalization never raises, and when neither resolution attempt
\* succeeds the raw name comes back unchanged.
C2_NeverRaises ==
    pcC = "named" =>
        /\ canon.kind = "return"
        /\ canon.via = "fallback" => canon.value = entry

DefinedWhereReported(e) ==
    \A id \in DOMAIN e.obj :
        LET o == e.obj[id]
            q == Split(o.qualname)
            NameOf(k) == e.obj[e.objattr[k]].name
        IN  o.mod # Missing /\ o.qualname # Missing =>
                /\ o.mod \in e.modules
                /\ Dotted(o.mod, o.qualname) \notin e.modules
                /\ o.name # Missing => Len(Split(o.name)) = 1
                /\ Len(q) <= 2
                /\ Len(q) = 1 =>
                       /\ <<o.mod, o.qualname>> \in DOMAIN e.modattr
                       /\ e.modattr[<<o.mod, o.qualname>>] = id
                       /\ \A k \in DOMAIN e.objattr :
                              k[1] = id /\ NameOf(k) # Missing
                                  => /\ <<id, NameOf(k)>> \in DOMAIN e.objattr
                                     /\ NameOf(<<id, NameOf(k)>>) = NameOf(k)
                /\ Len(q) = 2 =>
                       /\ <<o.mod, q[1]>> \in DOMAIN e.modattr
                       /\ LET c == e.modattr[<<o.mod, q[1]>>]
                          IN  /\ e.obj[c].mod = o.mod
                              /\ e.obj[c].qualname = q[1]
                              /\ <<c, q[2]>> \in DOMAIN e.objattr
                              /\ e.objattr[<<c, q[2]>>] = id
                              /\ o.name = q[2]

---------------------------------------------------------------------------
(* Properties of the reconciler.                                           *)

\* api in S, as Python's set decides it: by canonical name.
Member(S, api) == \E x \in S : ApiEq(env, x, api)

\* The five exclusive outcomes.
Five ==
    <<validated.good_apis,
      validated.undocumented_public_apis,
      validated.deprecated_documented_apis,
      validated.undocumented_deprecated_public_apis,
      validated.private_documented_apis>>

\* C1: every code-side entry that is not DeveloperAPI is in exactly one of
\* the five sets, or in none when it is dropped (Unknown and undocumented);
\* the five sets are pairwise disjoint. PublicButPrivateName is outside the
\* count: it may share members with UndocumentedPublic.
C1_ExactlyOneOutcome ==
    pcR = "done" =>
        /\ \A k \in DOMAIN apis_in_code :
               LET api == apis_in_code[k]
                   n == Cardinality({i \in 1..5 : Member(Five[i], api)})
                   dropped == api.annotation_type = "Unknown"
                                  /\ k \notin DOMAIN apis_in_docs
               IN  ~is_developer(api) => n = IF dropped THEN 0 ELSE 1
        /\ \A i, j \in 1..5 :
               i # j => \A x \in Five[i] : ~Member(Five[j], x)

\* Two code entries with different outcomes, one of them also tagged
\* PublicButPrivateName.
C1_Witness ==
    /\ pcR = "done"
    /\ validated.good_apis # {}
    /\ validated.public_but_private_name # {}
    /\ validated.public_but_private_name \subseteq validated.undocumented_public_apis

\* The code-side entries with annotation a, documented or not.
CodeEntries(a, documented) ==
    {apis_in_code[k] : k \in {x \in DOMAIN apis_in_code :
                                 /\ apis_in_code[x].annotation_type = a
                                 /\ (x \in DOMAIN apis_in_docs) = documented}}

AllReturned ==
    validated.good_apis \cup validated.undocumented_public_apis
        \cup validated.deprecated_documented_apis
        \cup validated.undocumented_deprecated_public_apis
        \cup validated.private_documented_apis
        \cup validated.public_but_private_name

PrivateNamed(name) ==
    LET segs == Split(name)
    IN  \/ StartsWith(segs[Len(segs)], UNDERSCORE)
        \/ \E i \in 1..(Len(segs) - 1) : segs[i] = N_internal

\* C9: PublicButPrivateName is exactly the PublicAPI code entries that are
\* absent from the documentation and private-named, hence a subset of
\* UndocumentedPublic; an undocumented PublicAPI entry pkg._internal_fn is
\* in both.
C9_PrivateNameSet ==
    pcR = "done" =>
        /\ validated.public_but_private_name
               = {api \in CodeEntries("PublicAPI", FALSE) : PrivateNamed(api.name)}
        /\ validated.public_but_private_name
               \subseteq validated.undocumented_public_apis
        /\ \A api \in CodeEntries("PublicAPI", FALSE) :
               api.name = N_pkg_internal_fn
                   => /\ api \in validated.undocumented_public_apis
                      /\ api \in validated.public_but_private_name

\* The object container.leaf names directly, when step 1 finds one that
\* reports a defining module and a qualified path.
Step1Object(e, name) ==
    LET k == <<RPartition(name).head, RPartition(name).tail>>
    IN  IF k[1] \in e.modules /\ k \in DOMAIN e.modattr
             /\ e.obj[e.modattr[k]].mod # Missing
             /\ e.obj[e.modattr[k]].qualname # Missing
        THEN {e.obj[e.modattr[k]]}
        ELSE {}

\* C11: an entry whose container.leaf resolves in step 1 to an object
\* defined as M.Q is keyed M.Q in its inventory, not by the alias path; with
\* Alias of pkg.sub defined as pkg.real.Thing, a PublicAPI code entry and a
\* documentation entry both named pkg.sub.Alias are both keyed
\* pkg.real.Thing and the code entry is classified Good.
C11_AliasCollapse ==
    /\ \A k \in DOMAIN apis_in_code :
           \A o \in Step1Object(env, apis_in_code[k].name) :
               k = Dotted(o.mod, o.qualname)
    /\ \A k \in DOMAIN apis_in_docs :
           \A o \in Step1Object(env, apis_in_docs[k].name) :
               k = Dotted(o.mod, o.qualname)
    /\ pcR = "done" /\ env = EnvPlain =>
           \A kc \in DOMAIN apis_in_code, kd \in DOMAIN apis_in_docs :
               /\ apis_in_code[kc].name = N_pkg_sub_Alias
               /\ apis_in_docs[kd].name = N_pkg_sub_Alias
               /\ is_public(apis_in_code[kc])
               => /\ kc = N_pkg_real_Thing
                  /\ kd = N_pkg_real_Thing
                  /\ apis_in_code[kc] \in validated.good_apis

C11_Witness ==
    /\ pcR = "done"
    /\ env = EnvPlain
    /\ \E kc \in DOMAIN apis_in_code, kd \in DOMAIN apis_in_docs :
           /\ apis_in_code[kc].name = N_pkg_sub_Alias
           /\ apis_in_docs[kd].name = N_pkg_sub_Alias
           /\ apis_in_code[kc] \in validated.good_apis

\* C12: step 2 decides only where step 1 has failed, and its result is the
\* class's defining module, the class's qualified path and the method's
\* name; with Alias of pkg.sub aliasing class pkg.real.Thing, a
\* documentation entry pkg.sub.Alias.method and a PublicAPI code entry
\* pkg.real.Thing.method have the same key and the code entry is Good.
C12_MethodThroughAlias ==
    /\ \A k \in DOMAIN apis_in_docs :
           get_canonical_name(env, apis_in_docs[k].name).via = "step2"
               => Step1Object(env, apis_in_docs[k].name) = {}
    /\ \A k \in DOMAIN apis_in_code :
           get_canonical_name(env, apis_in_code[k].name).via = "step2"
               => Step1Object(env, apis_in_code[k].name) = {}
    /\ pcR = "done" /\ env = EnvPlain =>
           \A kc \in DOMAIN apis_in_code, kd \in DOMAIN apis_in_docs :
               /\ apis_in_code[kc].name = N_pkg_real_Thing_method
               /\ apis_in_docs[kd].name = N_pkg_sub_Alias_method
               /\ is_public(apis_in_code[kc])
               => /\ kc = N_pkg_real_Thing_method
                  /\ kd = kc
                  /\ apis_in_code[kc] \in validated.good_apis

C12_Witness ==
    /\ pcR = "done"
    /\ env = EnvPlain
    /\ \E kc \in DOMAIN apis_in_code, kd \in DOMAIN apis_in_docs :
           /\ apis_in_code[kc].name = N_pkg_real_Thing_method
           /\ apis_in_docs[kd].name = N_pkg_sub_Alias_method
           /\ apis_in_code[kc] \in validated.good_apis

\* Indices below k of the namespace directives of the document.
NamespaceDirectives(k) ==
    {j \in 1..Len(rst_file) :
        j < k /\ StartsWith(rst_file[j], SPHINX_CURRENTMODULE_HEADER)}

\* Value of the most recent namespace directive before line k of the
\* document; None when there is none.
NamespaceBefore(k) ==
    IF NamespaceDirectives(k) = {} THEN NoneVal
    ELSE LET j == CHOOSE x \in NamespaceDirectives(k) :
                      \A y \in NamespaceDirectives(k) : y <= x
         IN  Strip(DropFirst(rst_file[j], Len(SPHINX_CURRENTMODULE_HEADER)))

\* The index of the line the scan holds, or one past the document at its end.
Held == IF line # EOF THEN pos ELSE Len(rst_file) + 1

\* Every name of `added` carries the prefix ns + "." when ns is a namespace.
Prefixed(added, ns) ==
    \A i \in 1..Len(added) :
        added[i] # NoneAPI /\ Truthy(ns) => StartsWith(added[i].name, ns \o DOT)

\* C13: the namespace the scan holds is the value of the most recent
\* namespace directive before the line it holds in the document being
\* parsed (None when there is none, whatever was parsed before), and the
\* references a directive adds are built with the namespace of the most
\* recent namespace directive before that directive.
C13_NamespaceScoping ==
    /\ [](pc \in {"main", "collect"} => module = NamespaceBefore(Held))
    /\ [][/\ (pc = "main" /\ pc' # "done"
                 /\ StartsWith(line, SPHINX_AUTOCLASS_HEADER))
             => /\ apis' = Append(apis, from_autoclass(line, NamespaceBefore(pos)))
                /\ Prefixed(<<apis'[Len(apis')]>>, NamespaceBefore(pos))
          /\ (pc = "collect" /\ pc' = "main")
             => LET h == examined[Len(examined)]
                IN  /\ apis' = apis \o from_autosummary(doc', NamespaceBefore(h))
                    /\ Prefixed(SubSeq(apis', Len(apis) + 1, Len(apis')),
                                NamespaceBefore(h))]_vars

\* Two namespace directives before a reference: the later one is prefixed.
C13_Witness ==
    /\ pc = "done"
    /\ rst_file = <<L_currentmodule, L_currentmodule_q, L_autoclass>>
    /\ result = <<API(N_q_pkg_Widget, "PublicAPI", "Class")>>

\* Lines of the document the scan has not finished with: the line it holds
\* and those after it.
Unfinished ==
    IF pc = "start" THEN Len(rst_file) + 1
    ELSE IF line = EOF THEN 0
    ELSE Len(rst_file) - pos + 1

\* Steps the parse can still take at most: two for each unfinished line
\* (examined by the scan, collected by a block), one to leave a block, one
\* to return.
Variant ==
    2 * Unfinished + (CASE pc = "collect" -> 2
                        [] pc \in {"start", "main"} -> 1
                        [] OTHER -> 0)

\* The running function has a next step: Open at "start"; MainStep or
\* Return at "main" and CollectStep or CollectEnd at "collect", whose guards
\* are `line` being non-empty and `line` being empty.
CanStep == pc \in {"start", "main", "collect"}

\* C16: the parse of a finite document ends: until it returns a step is
\* always possible and every step lowers Variant, which is never negative;
\* each iteration of the main scan reads a line not read before unless the
\* document is exhausted, and so has each block collection when the scan
\* resumes, whether a line ended it (a list header included) or the end of
\* the document.
C16_Terminates ==
    /\ [](Variant >= 0 /\ (pc = "done" \/ CanStep))
    /\ [][/\ (pc # "done" => Variant' < Variant)
          /\ (pc = "main" /\ pc' # "done")
             => (pos' = pos + 1 \/ (pos = Len(rst_file) /\ line' = EOF))
          /\ (pc = "collect" /\ pc' = "main")
             => (pos > examined[Len(examined)] \/ line = EOF)]_vars

\* A block ended by a list header, whose own block runs to the end of the
\* document with no terminator.
C16_Witness ==
    /\ pc = "done"
    /\ \E t \in terms :
           /\ StartsWith(rst_file[t], SPHINX_AUTOSUMMARY_HEADER)
           /\ t < Len(rst_file)
           /\ \A u \in (t + 1)..Len(rst_file) : u \in collected

\* C14: over any calls of the wrapped function with any `force`, func runs
\* at most once and only in the first call, and every later call is
\* skipped with the debug message and no exception.
C14_RunsOnlyOnFirstCall ==
    /\ ran <= 1
    /\ \A i \in 1..Len(calls) :
           /\ calls[i].outcome \in {"ran", "ran and raised"} => i = 1
           /\ i > 1 => calls[i].outcome = "skipped"

\* C15: flat is the flattening of tree, and an insert that raised left flat
\* and the entries of the tree as they were.
C15_FlatMirrorsTree ==
    /\ flat = to_flat(nodes, tree)
    /\ insert_raised => flat = before.flat /\ nodes = before.nodes

====
